---- MODULE Spec2Model ----
(***************************************************************************)
(* A model of webserver.c: the request parser, the response builder, the   *)
(* path matcher, the route table, the middleware chain, the dispatcher and *)
(* the connection loop of main.  C strings are TLA+ strings; a buffer of   *)
(* size N that was zeroed before a strncpy of N-1 bytes holds the first    *)
(* N-1 bytes of its source.                                                *)
(***************************************************************************)
EXTENDS Integers, Sequences, FiniteSets, TLC

VARIABLES
    pc,           \* position of main: "start", "accept", "recv", "handle", "send", "close"
    routes,       \* server.routes[0 .. route_count-1]
    middleware,   \* server.middleware[0 .. middleware_count-1]
    declared,     \* history: the register_route calls made, in call order
    conn_count,   \* history: number of connections accepted so far
    buffer,       \* main's receive buffer, as a C string
    bytes_read,   \* the result of recv
    req,          \* the HttpRequest of the current cycle
    res,          \* the HttpResponse of the current cycle
    now,          \* the value time() returns during the current cycle
    name_buffer,  \* handle_hello's static char name_buffer[64]
    calls,        \* history: the gates and handler handle_request invoked
    wire,         \* the bytes send_response handed to send()
    sock_log,     \* history: what happened on the current client socket
    pm            \* arguments and result of a path_matches call

vars == <<pc, routes, middleware, declared, conn_count, buffer, bytes_read,
          req, res, now, name_buffer, calls, wire, sock_log, pm>>

\* ------------------------------------------------------------ constants

MAX_ROUTES == 50
MAX_MIDDLEWARE == 10
BUFFER_SIZE == 4096
PathSize == 256
QuerySize == 512
BodySize == 2048
HeadersSize == 1024
ResBodySize == 4096
ResponseSize == 8192
NameWidth == 63
MethodStrSize == 16
FullPathSize == 512

\* ------------------------------------------------------------ bounds

MaxConns == 2
ClockMax == 1
MaxChain == 3
MaxRegRoutes == 2
MatchLen == 2

\* ------------------------------------------------------------ libc

Min2(a, b) == IF a < b THEN a ELSE b

MinOf(S) == CHOOSE x \in S : \A y \in S : x <= y

At(s, i) == SubSeq(s, i, i)

\* The first n bytes of s: what strncpy(dst, s, n) leaves in a zeroed dst.
strncpy(s, n) == SubSeq(s, 1, Min2(n, Len(s)))

\* strncmp(a, b, n) == 0
strncmp_eq(a, b, n) == strncpy(a, n) = strncpy(b, n)

\* Index of the first occurrence of needle in hay, 0 for NULL.
strstr(hay, needle) ==
    LET hits == {i \in 1..(Len(hay) - Len(needle) + 1) :
                    SubSeq(hay, i, i + Len(needle) - 1) = needle}
    IN IF hits = {} THEN 0 ELSE MinOf(hits)

\* Index of the first occurrence of the byte c in s, 0 for NULL.
strchr(s, c) == strstr(s, c)

IsSpace(c) == c \in {" ", "\t", "\n", "\r", "\f"}

IsDigit(c) == c \in {"0", "1", "2", "3", "4", "5", "6", "7", "8", "9"}

\* First index >= i that is past the end of s or holds a non-space byte.
SkipSpace(s, i) ==
    MinOf({j \in i..(Len(s) + 1) : j = Len(s) + 1 \/ ~IsSpace(At(s, j))})

\* First index >= i that is past the end of s or holds a space byte.
TokenEnd(s, i) ==
    MinOf({j \in i..(Len(s) + 1) : j = Len(s) + 1 \/ IsSpace(At(s, j))})

\* First index >= i that is past the end of s or holds a non-digit byte.
DigitsEnd(s, i) ==
    MinOf({j \in i..(Len(s) + 1) : j = Len(s) + 1 \/ ~IsDigit(At(s, j))})

\* sscanf(raw, "%s %s", a, b): the number of conversions made and the tokens.
sscanf_s_s(raw) ==
    LET a == SkipSpace(raw, 1)
        b == TokenEnd(raw, a)
        c == SkipSpace(raw, b)
        d == TokenEnd(raw, c)
    IN IF a > Len(raw) THEN [n |-> 0, first |-> "", second |-> ""]
       ELSE IF c > Len(raw)
            THEN [n |-> 1, first |-> SubSeq(raw, a, b - 1), second |-> ""]
            ELSE [n |-> 2, first |-> SubSeq(raw, a, b - 1),
                  second |-> SubSeq(raw, c, d - 1)]

DigitVal(c) ==
    CASE c = "0" -> 0 [] c = "1" -> 1 [] c = "2" -> 2 [] c = "3" -> 3
      [] c = "4" -> 4 [] c = "5" -> 5 [] c = "6" -> 6 [] c = "7" -> 7
      [] c = "8" -> 8 [] c = "9" -> 9

DigitChar(d) ==
    CASE d = 0 -> "0" [] d = 1 -> "1" [] d = 2 -> "2" [] d = 3 -> "3"
      [] d = 4 -> "4" [] d = 5 -> "5" [] d = 6 -> "6" [] d = 7 -> "7"
      [] d = 8 -> "8" [] d = 9 -> "9"

RECURSIVE DigitsToNat(_)
DigitsToNat(s) ==
    IF s = "" THEN 0
    ELSE 10 * DigitsToNat(SubSeq(s, 1, Len(s) - 1)) + DigitVal(At(s, Len(s)))

RECURSIVE NatToDigits(_)
NatToDigits(n) ==
    IF n < 10 THEN DigitChar(n)
    ELSE NatToDigits(n \div 10) \o DigitChar(n % 10)

\* printf's %d and %ld.
fmt_d(n) == IF n < 0 THEN "-" \o NatToDigits(0 - n) ELSE NatToDigits(n)

\* sscanf(s, "%d", &v) at index i: [ok, value]; an optional sign, then digits.
scan_d(s, i) ==
    LET j == SkipSpace(s, i)
        signed == j <= Len(s) /\ At(s, j) \in {"-", "+"}
        k == IF signed THEN j + 1 ELSE j
        e == DigitsEnd(s, k)
    IN IF e = k THEN [ok |-> FALSE, value |-> 0]
       ELSE [ok |-> TRUE,
             value |-> IF signed /\ At(s, j) = "-"
                       THEN 0 - DigitsToNat(SubSeq(s, k, e - 1))
                       ELSE DigitsToNat(SubSeq(s, k, e - 1))]

\* ctime() of the first minute of the epoch, in UTC.
ctime(t) ==
    "Thu Jan  1 00:00:" \o (IF t < 10 THEN "0" ELSE "") \o NatToDigits(t)
        \o " 1970\n"

\* ------------------------------------------------------------ parser

parse_method(method_str) ==
    IF method_str = "GET" THEN "GET"
    ELSE IF method_str = "POST" THEN "POST"
    ELSE IF method_str = "PUT" THEN "PUT"
    ELSE IF method_str = "DELETE" THEN "DELETE"
    ELSE "UNSUPPORTED"

method_to_string(method) ==
    IF method \in {"GET", "POST", "PUT", "DELETE"} THEN method ELSE "UNSUPPORTED"

\* HttpRequest req = {0}
ZeroRequest ==
    [method |-> "GET", path |-> "", query_string |-> "", body |-> "",
     body_length |-> 0, headers |-> ""]

\* A faulty variant of query_start_of: the last '?' instead of the first.
query_start_last(full_path) ==
    LET hits == {i \in 1..Len(full_path) : At(full_path, i) = "?"}
    IN IF hits = {} THEN 0 ELSE CHOOSE x \in hits : \A y \in hits : y <= x

\* char* query_start = strchr(full_path, '?')
query_start_of(full_path) == strchr(full_path, "?")

\* parse_request on a zeroed HttpRequest.  method_str and full_path are
\* uninitialized locals: a conversion sscanf does not make leaves the bytes
\* the stack held, ind_method and ind_path.
parse_request(raw, ind_method, ind_path) ==
    LET sc == sscanf_s_s(raw)
        method_str == IF sc.n >= 1 THEN sc.first ELSE ind_method
        full_path == IF sc.n = 2 THEN sc.second ELSE ind_path
        query_start == query_start_of(full_path)
        body_start == strstr(raw, "\r\n\r\n")
        body == IF body_start # 0
                THEN strncpy(SubSeq(raw, body_start + 4, Len(raw)), BodySize - 1)
                ELSE ""
    IN [method |-> parse_method(method_str),
        path |-> IF query_start # 0
                 THEN strncpy(SubSeq(full_path, 1, query_start - 1), PathSize - 1)
                 ELSE strncpy(full_path, PathSize - 1),
        query_string |->
                 IF query_start # 0
                 THEN strncpy(SubSeq(full_path, query_start + 1, Len(full_path)),
                              QuerySize - 1)
                 ELSE "",
        body |-> body,
        body_length |-> Len(body),
        headers |-> strncpy(raw, HeadersSize - 1)]

\* ------------------------------------------------------------ response

init_response ==
    [status_code |-> 200, content_type |-> "text/plain", body |-> "",
     body_length |-> 0]

\* A faulty variant of set_json_response: body_length keeps its previous value.
set_json_response_stale(r, status, json) ==
    [status_code |-> status, content_type |-> "application/json",
     body |-> strncpy(json, ResBodySize - 1), body_length |-> r.body_length]

set_json_response(r, status, json) ==
    LET body == strncpy(json, ResBodySize - 1)
    IN [status_code |-> status, content_type |-> "application/json",
        body |-> body, body_length |-> Len(body)]

set_text_response(r, status, text) ==
    LET body == strncpy(text, ResBodySize - 1)
    IN [status_code |-> status, content_type |-> "text/plain",
        body |-> body, body_length |-> Len(body)]

set_html_response(r, status, html) ==
    LET body == strncpy(html, ResBodySize - 1)
    IN [status_code |-> status, content_type |-> "text/html",
        body |-> body, body_length |-> Len(body)]

get_status_text(code) ==
    CASE code = 200 -> "OK"
      [] code = 201 -> "Created"
      [] code = 204 -> "No Content"
      [] code = 400 -> "Bad Request"
      [] code = 404 -> "Not Found"
      [] code = 405 -> "Method Not Allowed"
      [] code = 500 -> "Internal Server Error"
      [] OTHER -> "Unknown"

\* The bytes send_response passes to send(): snprintf keeps at most
\* sizeof(response) - 1 of them.
send_response(r) ==
    LET text == "HTTP/1.1 " \o fmt_d(r.status_code) \o " "
                    \o get_status_text(r.status_code) \o "\r\n"
                    \o "Content-Type: " \o r.content_type \o "\r\n"
                    \o "Content-Length: " \o fmt_d(r.body_length) \o "\r\n"
                    \o "Connection: close\r\n"
                    \o "\r\n"
                    \o r.body
    IN strncpy(text, ResponseSize - 1)

\* ------------------------------------------------------------ middleware

\* A gate's result: what it returned and the response as it left it.
logger_middleware(q, r) == [ret |-> TRUE, res |-> r]

cors_middleware(q, r) == [ret |-> TRUE, res |-> r]

BodyUnauthorized == "{\"error\": \"Unauthorized\"}"

\* A faulty variant of auth_middleware: only the path /admin itself is protected.
auth_middleware_exact(q, r) ==
    IF q.path = "/admin" /\ strstr(q.headers, "Authorization:") = 0
    THEN [ret |-> FALSE, res |-> set_json_response(r, 401, "{\"error\": \"Unauthorized\"}")]
    ELSE [ret |-> TRUE, res |-> r]

auth_middleware(q, r) ==
    IF strncmp_eq(q.path, "/admin", 6) /\ strstr(q.headers, "Authorization:") = 0
    THEN [ret |-> FALSE, res |-> set_json_response(r, 401, BodyUnauthorized)]
    ELSE [ret |-> TRUE, res |-> r]

\* server.middleware[i](req, res)
call_middleware(fn, q, r) ==
    CASE fn = "logger_middleware" -> logger_middleware(q, r)
      [] fn = "auth_middleware" -> auth_middleware(q, r)
      [] fn = "cors_middleware" -> cors_middleware(q, r)

\* ------------------------------------------------------------ handlers

\* A handler's result: the response and handle_hello's static buffer.

BodyHome ==
    "<!DOCTYPE html>"
    \o "<html><head><title>C Web Server</title></head>"
    \o "<body>"
    \o "<h1>Welcome to the C Web Server!</h1>"
    \o "<p>Available endpoints:</p>"
    \o "<ul>"
    \o "<li>GET / - This page</li>"
    \o "<li>GET /api/hello - Hello JSON</li>"
    \o "<li>GET /api/time - Current time</li>"
    \o "<li>GET /api/users - List users</li>"
    \o "<li>POST /api/users - Create user</li>"
    \o "<li>GET /api/users/123 - Get specific user</li>"
    \o "<li>DELETE /api/users/123 - Delete user</li>"
    \o "<li>GET /admin - Protected route (requires auth)</li>"
    \o "</ul>"
    \o "</body></html>"

handle_home(q, r, t, nb) ==
    [res |-> set_html_response(r, 200, BodyHome), name_buffer |-> nb]

handle_hello(q, r, t, nb) ==
    LET name_param == IF q.query_string # "" THEN strstr(q.query_string, "name=")
                      ELSE 0
        rest == SubSeq(q.query_string, name_param + 5, Len(q.query_string))
        a == SkipSpace(rest, 1)
        b == Min2(TokenEnd(rest, a), a + NameWidth)
        \* sscanf "name=%63s": no conversion at the end of the input
        nb2 == IF name_param # 0 /\ a <= Len(rest) THEN SubSeq(rest, a, b - 1)
               ELSE nb
        name == IF name_param # 0 THEN nb2 ELSE "Guest"
        json == strncpy("{\"message\": \"Hello, " \o name \o "!\", \"timestamp\": "
                            \o fmt_d(t) \o "}", 255)
    IN [res |-> set_json_response(r, 200, json), name_buffer |-> nb2]

handle_time(q, r, t, nb) ==
    LET c == ctime(t)
        time_str == SubSeq(c, 1, Len(c) - 1)
        json == strncpy("{\"current_time\": \"" \o time_str
                            \o "\", \"unix_timestamp\": " \o fmt_d(t) \o "}", 255)
    IN [res |-> set_json_response(r, 200, json), name_buffer |-> nb]

BodyUsersList ==
    "{"
    \o "  \"users\": ["
    \o "    {\"id\": 1, \"name\": \"Alice\", \"email\": \"alice@example.com\"},"
    \o "    {\"id\": 2, \"name\": \"Bob\", \"email\": \"bob@example.com\"},"
    \o "    {\"id\": 3, \"name\": \"Charlie\", \"email\": \"charlie@example.com\"}"
    \o "  ],"
    \o "  \"count\": 3"
    \o "}"

handle_users_list(q, r, t, nb) ==
    [res |-> set_json_response(r, 200, BodyUsersList), name_buffer |-> nb]

BodyUserCreated ==
    "{"
    \o "  \"id\": 4,"
    \o "  \"name\": \"New User\","
    \o "  \"email\": \"newuser@example.com\","
    \o "  \"created\": true"
    \o "}"

handle_user_create(q, r, t, nb) ==
    [res |-> set_json_response(r, 201, BodyUserCreated), name_buffer |-> nb]

\* sscanf(req->path, "/api/users/%d", &user_id) with user_id = 0 before it.
scan_user_id(path) ==
    IF strncmp_eq(path, "/api/users/", 11) /\ Len(path) >= 11
    THEN scan_d(path, 12).value
    ELSE 0

BodyUserNotFound == "{\"error\": \"User not found\"}"

handle_user_get(q, r, t, nb) ==
    LET user_id == scan_user_id(q.path)
        id == fmt_d(user_id)
        json == strncpy("{\"id\": " \o id \o ", \"name\": \"User " \o id
                            \o "\", \"email\": \"user" \o id \o "@example.com\"}", 255)
    IN [res |-> IF user_id > 0 /\ user_id <= 3
                THEN set_json_response(r, 200, json)
                ELSE set_json_response(r, 404, BodyUserNotFound),
        name_buffer |-> nb]

handle_user_delete(q, r, t, nb) ==
    LET user_id == scan_user_id(q.path)
        json == strncpy("{\"message\": \"User " \o fmt_d(user_id)
                            \o " deleted\", \"success\": true}", 127)
    IN [res |-> set_json_response(r, 200, json), name_buffer |-> nb]

BodyAdmin == "{\"message\": \"Welcome to admin panel\"}"

handle_admin(q, r, t, nb) ==
    [res |-> set_json_response(r, 200, BodyAdmin), name_buffer |-> nb]

BodyRouteNotFound == "{\"error\": \"Route not found\"}"

handle_not_found(q, r, t, nb) ==
    [res |-> set_json_response(r, 404, BodyRouteNotFound), name_buffer |-> nb]

\* handler(req, res)
call_handler(fn, q, r, t, nb) ==
    CASE fn = "handle_home" -> handle_home(q, r, t, nb)
      [] fn = "handle_hello" -> handle_hello(q, r, t, nb)
      [] fn = "handle_time" -> handle_time(q, r, t, nb)
      [] fn = "handle_users_list" -> handle_users_list(q, r, t, nb)
      [] fn = "handle_user_create" -> handle_user_create(q, r, t, nb)
      [] fn = "handle_user_get" -> handle_user_get(q, r, t, nb)
      [] fn = "handle_user_delete" -> handle_user_delete(q, r, t, nb)
      [] fn = "handle_admin" -> handle_admin(q, r, t, nb)
      [] fn = "handle_not_found" -> handle_not_found(q, r, t, nb)

\* ------------------------------------------------------------ routing

register_route(rts, method, path, handler) ==
    IF Len(rts) < MAX_ROUTES
    THEN Append(rts, [method |-> method, path |-> strncpy(path, PathSize - 1),
                      handler |-> handler])
    ELSE rts

register_middleware(mws, fn) ==
    IF Len(mws) < MAX_MIDDLEWARE THEN Append(mws, fn) ELSE mws

\* A faulty variant of path_matches: the placeholder stands for exactly one segment.
path_matches_segment(route_path, req_path) ==
    IF route_path = req_path THEN TRUE
    ELSE LET placeholder == strstr(route_path, "/:id")
             prefix == SubSeq(route_path, 1, placeholder - 1)
             rest == SubSeq(req_path, Len(prefix) + 1, Len(req_path))
         IN /\ placeholder # 0
            /\ strncmp_eq(prefix, req_path, Len(prefix))
            /\ Len(rest) >= 2
            /\ At(rest, 1) = "/"
            /\ strstr(SubSeq(rest, 2, Len(rest)), "/") = 0

path_matches(route_path, req_path) ==
    IF route_path = req_path THEN TRUE
    ELSE IF strstr(route_path, "/:id") # 0
    THEN LET pattern == strncpy(route_path, PathSize - 1)
             placeholder == strstr(pattern, "/:id")
             prefix == SubSeq(pattern, 1, placeholder - 1)
         IN placeholder # 0 /\ strncmp_eq(prefix, req_path, Len(prefix))
    ELSE FALSE

\* The loop of find_handler from index i on.
RECURSIVE find_handler_from(_, _, _)
find_handler_from(rts, q, i) ==
    IF i > Len(rts) THEN "handle_not_found"
    ELSE IF rts[i].method = q.method /\ path_matches(rts[i].path, q.path)
    THEN rts[i].handler
    ELSE find_handler_from(rts, q, i + 1)

\* A faulty variant of find_handler: the last matching route wins.
find_handler_last(rts, q) ==
    LET hits == {i \in 1..Len(rts) :
                    rts[i].method = q.method /\ path_matches(rts[i].path, q.path)}
    IN IF hits = {} THEN "handle_not_found"
       ELSE rts[CHOOSE i \in hits : \A j \in hits : j <= i].handler

\* A faulty variant of find_handler: the method is not compared.
find_handler_any_method(rts, q) ==
    LET hits == {i \in 1..Len(rts) : path_matches(rts[i].path, q.path)}
    IN IF hits = {} THEN "handle_not_found" ELSE rts[MinOf(hits)].handler

find_handler(rts, q) == find_handler_from(rts, q, 1)

\* A faulty variant of middleware_loop: a gate's false result does not end the loop.
RECURSIVE middleware_loop_nostop(_, _, _, _, _)
middleware_loop_nostop(mws, i, q, r, log) ==
    IF i > Len(mws) THEN [stopped |-> FALSE, res |-> r, calls |-> log]
    ELSE LET g == call_middleware(mws[i], q, r)
         IN middleware_loop_nostop(mws, i + 1, q, g.res,
                Append(log, [kind |-> "gate", idx |-> i, fn |-> mws[i],
                             ret |-> g.ret, res |-> g.res]))

\* The middleware loop of handle_request from index i on: whether a gate
\* stopped the request, the response, and the gates called.
RECURSIVE middleware_loop(_, _, _, _, _)
middleware_loop(mws, i, q, r, log) ==
    IF i > Len(mws) THEN [stopped |-> FALSE, res |-> r, calls |-> log]
    ELSE LET g == call_middleware(mws[i], q, r)
             log2 == Append(log, [kind |-> "gate", idx |-> i, fn |-> mws[i],
                                  ret |-> g.ret, res |-> g.res])
         IN IF ~g.ret THEN [stopped |-> TRUE, res |-> g.res, calls |-> log2]
            ELSE middleware_loop(mws, i + 1, q, g.res, log2)

\* handle_request: the response, the calls made, and name_buffer afterwards.
handle_request(mws, rts, q, r, t, nb) ==
    LET m == middleware_loop(mws, 1, q, r, <<>>)
        handler == find_handler(rts, q)
        h == call_handler(handler, q, m.res, t, nb)
    IN IF m.stopped
       THEN [res |-> m.res, calls |-> m.calls, name_buffer |-> nb]
       ELSE [res |-> h.res,
             calls |-> Append(m.calls, [kind |-> "handler", idx |-> 0,
                                        fn |-> handler, ret |-> TRUE,
                                        res |-> h.res]),
             name_buffer |-> h.name_buffer]

\* ------------------------------------------------------------ setup

setup_middleware(mws) ==
    register_middleware(
        register_middleware(
            register_middleware(mws, "logger_middleware"),
            "auth_middleware"),
        "cors_middleware")

setup_route_table(rts) ==
    LET r1 == register_route(rts, "GET", "/", "handle_home")
        r2 == register_route(r1, "GET", "/api/hello", "handle_hello")
        r3 == register_route(r2, "GET", "/api/time", "handle_time")
        r4 == register_route(r3, "GET", "/api/users", "handle_users_list")
        r5 == register_route(r4, "POST", "/api/users", "handle_user_create")
        r6 == register_route(r5, "GET", "/api/users/:id", "handle_user_get")
        r7 == register_route(r6, "DELETE", "/api/users/:id", "handle_user_delete")
    IN register_route(r7, "GET", "/admin", "handle_admin")

\* ------------------------------------------------------------ inputs

\* What recv can deliver: a request line, header lines, a blank line, a body.
MethodTokens == {"GET", "POST", "DELETE", "PATCH"}

Targets ==
    {"/", "/api/hello", "/api/hello?name=Ada", "/api/hello?name=", "/api/time",
     "/api/users", "/api/users/2", "/api/users/7", "/api/users/123/extra",
     "/admin", "/admin/x", "/other"}

HeaderLines == {"", "Authorization: t\r\n"}

WellFormed ==
    {m \o " " \o t \o " HTTP/1.1\r\n" \o h \o "\r\n" :
        m \in MethodTokens, t \in Targets, h \in HeaderLines}

\* Inputs whose first line lacks a method token or a target.
Malformed == {" ", "\r\n", "GET", "GET\r\nHost: a\r\n\r\n", "\r\nGET / HTTP/1.1\r\n\r\n"}

Requests == WellFormed \cup Malformed

\* recv delivers at most BUFFER_SIZE - 1 bytes; sscanf's unbounded %s stays
\* inside method_str and full_path only for tokens that fit them.
FitsBuffers(raw) ==
    /\ Len(raw) <= BUFFER_SIZE - 1
    /\ Len(sscanf_s_s(raw).first) <= MethodStrSize - 1
    /\ Len(sscanf_s_s(raw).second) <= FullPathSize - 1

\* Bytes an uninitialized method_str or full_path may hold.
Indeterminate == {"", "GET", "/", "/admin"}

Clock == 0..ClockMax

\* ------------------------------------------------------------ main

NoMatch == [route_path |-> "", req_path |-> "", called |-> FALSE, result |-> FALSE]

Init ==
    /\ pc = "start"
    /\ routes = <<>>
    /\ middleware = <<>>
    /\ declared = <<>>
    /\ conn_count = 0
    /\ buffer = ""
    /\ bytes_read = 0
    /\ req = ZeroRequest
    /\ res = init_response
    /\ now = 0
    /\ name_buffer = ""
    /\ calls = <<>>
    /\ wire = ""
    /\ sock_log = <<>>
    /\ pm = NoMatch

\* main: setup_routes(), then socket, bind and listen succeed.
Setup ==
    /\ pc = "start"
    /\ middleware' = setup_middleware(middleware)
    /\ routes' = setup_route_table(routes)
    /\ declared' = setup_route_table(declared)
    /\ pc' = "accept"
    /\ UNCHANGED <<conn_count, buffer, bytes_read, req, res, now, name_buffer,
                   calls, wire, sock_log, pm>>

\* accept(): a failure continues the loop, a success yields a fresh socket.
Accept ==
    /\ pc = "accept"
    /\ conn_count < MaxConns
    /\ \E ok \in BOOLEAN :
        IF ok
        THEN /\ pc' = "recv"
             /\ conn_count' = conn_count + 1
             /\ sock_log' = <<>>
             /\ wire' = ""
        ELSE UNCHANGED <<pc, conn_count, sock_log, wire>>
    /\ UNCHANGED <<routes, middleware, declared, buffer, bytes_read, req, res,
                   now, name_buffer, calls, pm>>

\* A faulty variant of after_recv: the request cycle runs whatever recv returned.
after_recv_always(n) == "handle"

\* if (bytes_read > 0) { ... } close(client_sock);
after_recv(n) == IF n > 0 THEN "handle" ELSE "close"

\* memset(buffer), recv(): data, an orderly shutdown (0) or an error (-1).
Recv ==
    /\ pc = "recv"
    /\ \/ \E raw \in Requests :
            /\ FitsBuffers(raw)
            /\ buffer' = raw
            /\ bytes_read' = Len(raw)
            /\ sock_log' = Append(sock_log, "recv_data")
            /\ pc' = after_recv(Len(raw))
       \/ \E n \in {0, -1} :
            /\ buffer' = ""
            /\ bytes_read' = n
            /\ sock_log' = Append(sock_log, "recv_none")
            /\ pc' = after_recv(n)
    /\ UNCHANGED <<routes, middleware, declared, conn_count, req, res, now,
                   name_buffer, calls, wire, pm>>

\* bytes_read > 0: init_response, parse_request, handle_request.
Handle ==
    /\ pc = "handle"
    /\ \E t \in Clock, im \in Indeterminate, ip \in Indeterminate :
        \E q \in {parse_request(buffer, im, ip)} :
        \E out \in {handle_request(middleware, routes, q, init_response, t,
                                   name_buffer)} :
           /\ req' = q
           /\ res' = out.res
           /\ calls' = out.calls
           /\ name_buffer' = out.name_buffer
           /\ now' = t
    /\ pc' = "send"
    /\ UNCHANGED <<routes, middleware, declared, conn_count, buffer, bytes_read,
                   wire, sock_log, pm>>

\* send_response(client_sock, &res)
Send ==
    /\ pc = "send"
    /\ wire' = send_response(res)
    /\ sock_log' = Append(sock_log, "send")
    /\ pc' = "close"
    /\ UNCHANGED <<routes, middleware, declared, conn_count, buffer, bytes_read,
                   req, res, now, name_buffer, calls, pm>>

\* close(client_sock); req and res go out of scope.
Close ==
    /\ pc = "close"
    /\ sock_log' = Append(sock_log, "close")
    /\ pc' = "accept"
    /\ req' = ZeroRequest
    /\ res' = init_response
    /\ calls' = <<>>
    /\ now' = 0
    /\ UNCHANGED <<routes, middleware, declared, conn_count, buffer, bytes_read,
                   name_buffer, wire, pm>>

Next == Setup \/ Accept \/ Recv \/ Handle \/ Send \/ Close

Spec == Init /\ [][Next]_vars

\* ------------------------------------------------------------ registration
\* Any registration sequence, then the request cycle of main (init_response,
\* parse_request, handle_request) on requests taken one at a time.

Gates == {"logger_middleware", "auth_middleware", "cors_middleware"}

RouteChoices ==
    {[method |-> "GET", path |-> "/api/users", handler |-> "handle_users_list"],
     [method |-> "GET", path |-> "/api/users/:id", handler |-> "handle_user_get"],
     [method |-> "DELETE", path |-> "/api/users/:id", handler |-> "handle_user_delete"],
     [method |-> "GET", path |-> "/admin", handler |-> "handle_admin"]}

RegRequests ==
    {"GET /api/users HTTP/1.1\r\n\r\n",
     "GET /api/users/2 HTTP/1.1\r\n\r\n",
     "DELETE /api/users/2 HTTP/1.1\r\n\r\n",
     "POST /api/users HTTP/1.1\r\n\r\n",
     "GET /admin HTTP/1.1\r\n\r\n",
     "GET /admin HTTP/1.1\r\nAuthorization: t\r\n\r\n",
     "GET /admin/x HTTP/1.1\r\n\r\n",
     "GET /other HTTP/1.1\r\n\r\n"}

RegisterMiddleware ==
    /\ pc = "start"
    /\ Len(middleware) < MaxChain
    /\ \E g \in Gates : middleware' = register_middleware(middleware, g)
    /\ UNCHANGED <<pc, routes, declared, conn_count, buffer, bytes_read, req,
                   res, now, name_buffer, calls, wire, sock_log, pm>>

RegisterRoute ==
    /\ pc = "start"
    /\ Len(declared) < MaxRegRoutes
    /\ \E c \in RouteChoices :
        /\ routes' = register_route(routes, c.method, c.path, c.handler)
        /\ declared' = Append(declared, c)
    /\ UNCHANGED <<pc, middleware, conn_count, buffer, bytes_read, req, res,
                   now, name_buffer, calls, wire, sock_log, pm>>

\* main reaches its loop: registration is over.
Listen ==
    /\ pc = "start"
    /\ pc' = "ready"
    /\ UNCHANGED <<routes, middleware, declared, conn_count, buffer, bytes_read,
                   req, res, now, name_buffer, calls, wire, sock_log, pm>>

Dispatch ==
    /\ pc = "ready"
    /\ \E raw \in RegRequests :
        \E q \in {parse_request(raw, "", "")} :
        FitsBuffers(raw) /\
        \E out \in {handle_request(middleware, routes, q, init_response, now,
                                   name_buffer)} :
           /\ buffer' = raw
           /\ bytes_read' = Len(raw)
           /\ req' = q
           /\ res' = out.res
           /\ calls' = out.calls
           /\ name_buffer' = out.name_buffer
    /\ pc' = "dispatched"
    /\ UNCHANGED <<routes, middleware, declared, conn_count, now, wire,
                   sock_log, pm>>

\* The cycle ends: req and res go out of scope.
EndCycle ==
    /\ pc = "dispatched"
    /\ pc' = "ready"
    /\ buffer' = ""
    /\ bytes_read' = 0
    /\ req' = ZeroRequest
    /\ res' = init_response
    /\ calls' = <<>>
    /\ UNCHANGED <<routes, middleware, declared, conn_count, now, name_buffer,
                   wire, sock_log, pm>>

NextReg == RegisterMiddleware \/ RegisterRoute \/ Listen \/ Dispatch \/ EndCycle

SpecReg == Init /\ [][NextReg]_vars

\* ------------------------------------------------------------ path matcher
\* path_matches on patterns and paths drawn from bounded sets.

MatchAlphabet == {"/", "a", ":"}

RECURSIVE Words(_)
Words(n) ==
    IF n = 0 THEN {""}
    ELSE LET W == Words(n - 1) IN W \cup {w \o c : w \in W, c \in MatchAlphabet}

MatchPatterns ==
    Words(MatchLen)
        \cup {w \o "/:id" \o x : w \in Words(MatchLen), x \in {"", "/:id", "x"}}
        \cup {"/api/users/:id", "/other"}

MatchPaths ==
    {w \o x : w \in Words(MatchLen), x \in {"", "/", "/1", "/:id"}}
        \cup {"/api/users/123", "/api/users/123/extra", "/other", "/api/users/:id"}

InitMatch ==
    /\ pc = "match"
    /\ routes = <<>>
    /\ middleware = <<>>
    /\ declared = <<>>
    /\ conn_count = 0
    /\ buffer = ""
    /\ bytes_read = 0
    /\ req = ZeroRequest
    /\ res = init_response
    /\ now = 0
    /\ name_buffer = ""
    /\ calls = <<>>
    /\ wire = ""
    /\ sock_log = <<>>
    /\ pm \in {[route_path |-> p, req_path |-> q, called |-> FALSE,
                result |-> FALSE] : p \in MatchPatterns, q \in MatchPaths}

Match ==
    /\ pc = "match"
    /\ pm' = [pm EXCEPT !.called = TRUE,
                        !.result = path_matches(pm.route_path, pm.req_path)]
    /\ pc' = "matched"
    /\ UNCHANGED <<routes, middleware, declared, conn_count, buffer, bytes_read,
                   req, res, now, name_buffer, calls, wire, sock_log>>

NextMatch == Match

SpecMatch == InitMatch /\ [][NextMatch]_vars

\* ------------------------------------------------------------ parser alone
\* parse_request on raw inputs whose tokens fit method_str and full_path.

RECURSIVE Rep(_, _)
Rep(c, n) ==
    IF n = 0 THEN ""
    ELSE IF n % 2 = 1 THEN c \o Rep(c, n - 1)
    ELSE LET h == Rep(c, n \div 2) IN h \o h

\* A path of sizeof(req->path) bytes: one more than the field holds.
LongPath == "/" \o Rep("a", PathSize - 1)

ParseMethods == {"GET", "POST", "PUT", "DELETE", "PATCH"}

ParseTargets ==
    {"/", "/api/hello", "/api/hello?name=Ada", "/a?b?c", "?x", "/p?", "/?",
     "/api/users/2?x=1&y=2", SubSeq(LongPath, 1, PathSize - 1),
     LongPath, LongPath \o "?q=1"}

ParseTails == {"", " HTTP/1.1\r\n\r\n", " HTTP/1.1\r\nHost: a?b\r\n\r\nk=v?w"}

ParseInputs ==
    {m \o " " \o t \o z : m \in ParseMethods, t \in ParseTargets, z \in ParseTails}

InitParse ==
    /\ pc = "parse"
    /\ routes = <<>>
    /\ middleware = <<>>
    /\ declared = <<>>
    /\ conn_count = 0
    /\ buffer \in ParseInputs
    /\ bytes_read = Len(buffer)
    /\ req = ZeroRequest
    /\ res = init_response
    /\ now = 0
    /\ name_buffer = ""
    /\ calls = <<>>
    /\ wire = ""
    /\ sock_log = <<>>
    /\ pm = NoMatch

Parse ==
    /\ pc = "parse"
    /\ FitsBuffers(buffer)
    /\ \E im \in Indeterminate, ip \in Indeterminate :
        \E q \in {parse_request(buffer, im, ip)} : req' = q
    /\ pc' = "parsed"
    /\ UNCHANGED <<routes, middleware, declared, conn_count, buffer, bytes_read,
                   res, now, name_buffer, calls, wire, sock_log, pm>>

NextParse == Parse

SpecParse == InitParse /\ [][NextParse]_vars

\* ------------------------------------------------------------ response alone
\* init_response, any sequence of setter calls, then send_response.

Statuses == {200, 201, 401, 404}

Contents ==
    {"", "{\"id\":4}", BodyUnauthorized, BodyRouteNotFound, BodyHome,
     "a\r\n\r\nb"}

InitResp ==
    /\ pc = "respond"
    /\ routes = <<>>
    /\ middleware = <<>>
    /\ declared = <<>>
    /\ conn_count = 0
    /\ buffer = ""
    /\ bytes_read = 0
    /\ req = ZeroRequest
    /\ res = init_response
    /\ now = 0
    /\ name_buffer = ""
    /\ calls = <<>>
    /\ wire = ""
    /\ sock_log = <<>>
    /\ pm = NoMatch

UnchangedByResp ==
    UNCHANGED <<routes, middleware, declared, conn_count, buffer, bytes_read,
                req, now, name_buffer, calls, sock_log, pm>>

SetJson ==
    /\ pc = "respond"
    /\ \E st \in Statuses, c \in Contents : res' = set_json_response(res, st, c)
    /\ UNCHANGED <<pc, wire>>
    /\ UnchangedByResp

SetText ==
    /\ pc = "respond"
    /\ \E st \in Statuses, c \in Contents : res' = set_text_response(res, st, c)
    /\ UNCHANGED <<pc, wire>>
    /\ UnchangedByResp

SetHtml ==
    /\ pc = "respond"
    /\ \E st \in Statuses, c \in Contents : res' = set_html_response(res, st, c)
    /\ UNCHANGED <<pc, wire>>
    /\ UnchangedByResp

Serialize ==
    /\ pc = "respond"
    /\ wire' = send_response(res)
    /\ pc' = "sent"
    /\ UNCHANGED res
    /\ UnchangedByResp

NextResp == SetJson \/ SetText \/ SetHtml \/ Serialize

SpecResp == InitResp /\ [][NextResp]_vars

\* ------------------------------------------------------------ claims

Last(seq) == seq[Len(seq)]

BeginsWith(s, prefix) ==
    Len(s) >= Len(prefix) /\ SubSeq(s, 1, Len(prefix)) = prefix

Contains(s, sub) ==
    \E i \in 1..(Len(s) - Len(sub) + 1) : SubSeq(s, i, i + Len(sub) - 1) = sub

HandlerCalls == {j \in 1..Len(calls) : calls[j].kind = "handler"}

\* What gate fn answers for request q.
GateAnswer(fn, q) == call_middleware(fn, q, init_response).ret

\* Index of the first gate of the chain that answers false for q, 0 if none.
FirstStop(mws, q) ==
    LET stops == {i \in 1..Len(mws) : ~GateAnswer(mws[i], q)}
    IN IF stops = {} THEN 0 ELSE MinOf(stops)

\* The calls from 1 to k are the gates 1 to k of the chain, in that order.
GatesInOrder(k) ==
    \A j \in 1..k :
        calls[j].kind = "gate" /\ calls[j].idx = j /\ calls[j].fn = middleware[j]

\* C1: handle_request runs the gates in registration order, each once; when
\* gate i is the first to return false, gates 1..i have run, nothing runs
\* after it and the response is as gate i left it; when no gate returns
\* false, all gates run and then exactly one route handler.
C1_ChainOrder ==
    pc = "dispatched" =>
        LET k == FirstStop(middleware, req)
            n == Len(middleware)
        IN IF k # 0
           THEN /\ Len(calls) = k
                /\ GatesInOrder(k)
                /\ HandlerCalls = {}
                /\ ~calls[k].ret
                /\ res = calls[k].res
           ELSE /\ Len(calls) = n + 1
                /\ GatesInOrder(n)
                /\ HandlerCalls = {n + 1}

\* A chain of three gates whose second gate stopped the request: the first
\* two ran, the third and the handler did not.
C1_Witness ==
    /\ pc = "dispatched"
    /\ Len(middleware) = 3
    /\ FirstStop(middleware, req) = 2
    /\ Len(calls) = 2
    /\ res.status_code = 401

\* C2: with the chain and routes of setup_routes, a request whose path begins
\* with /admin and whose header blob holds no "Authorization:" gets 401 with
\* the Unauthorized body, and no route handler is invoked.
C2_UnauthorizedAdmin ==
    (/\ pc = "send"
     /\ BeginsWith(req.path, "/admin")
     /\ ~Contains(req.headers, "Authorization:"))
    => /\ res.status_code = 401
       /\ res.body = BodyUnauthorized
       /\ HandlerCalls = {}

\* A path under /admin that is not a registered route was refused.
C2_Witness ==
    /\ pc = "send"
    /\ req.path = "/admin/x"
    /\ ~Contains(req.headers, "Authorization:")
    /\ res.status_code = 401

\* The routes whose method and pattern match request q.
MatchingRoutes(rts, q) ==
    {i \in 1..Len(rts) : rts[i].method = q.method /\ path_matches(rts[i].path, q.path)}

IsRouteNotFound(r) == r.status_code = 404 /\ r.body = BodyRouteNotFound

\* C3 as stated: every request that matches no registered route for its
\* method gets 404 with the Route-not-found body.
C3_Original ==
    (pc = "send" /\ MatchingRoutes(routes, req) = {}) => IsRouteNotFound(res)

\* C3 as amended: every request that matches no registered route for its
\* method, and that the auth gate does not stop (its path does not begin with
\* /admin, or its header blob holds "Authorization:"), gets 404 with the
\* Route-not-found body.
C3_RouteMiss ==
    (/\ pc = "send"
     /\ MatchingRoutes(routes, req) = {}
     /\ ~(BeginsWith(req.path, "/admin") /\ ~Contains(req.headers, "Authorization:")))
    => IsRouteNotFound(res)

\* A request with an unsupported method token got the 404 of the fallback.
C3_Witness ==
    /\ pc = "send"
    /\ req.method = "UNSUPPORTED"
    /\ req.path = "/api/hello"
    /\ IsRouteNotFound(res)

\* C4: find_handler returns the handler of the matching route with the
\* smallest registration index, and the table holds the routes in the order
\* register_route was called.
C4_FirstMatchWins ==
    /\ routes = declared
    /\ (pc = "dispatched" /\ HandlerCalls # {}) =>
          LET hits == MatchingRoutes(declared, req)
          IN Last(calls).fn = IF hits = {} THEN "handle_not_found"
                              ELSE declared[MinOf(hits)].handler

\* Two registered routes with different handlers match; the first one ran.
C4_Witness ==
    /\ pc = "dispatched"
    /\ HandlerCalls # {}
    /\ \E i, j \in MatchingRoutes(declared, req) :
          /\ i < j
          /\ declared[i].handler # declared[j].handler
          /\ Last(calls).fn = declared[i].handler

HasPlaceholder(pattern) == Contains(pattern, "/:id")

\* The part of the pattern before its first placeholder.
BeforePlaceholder(pattern) ==
    CHOOSE x \in {SubSeq(pattern, 1, k) : k \in 0..Len(pattern)} :
        /\ BeginsWith(pattern, x \o "/:id")
        /\ \A k \in 0..(Len(x) - 1) : ~BeginsWith(pattern, SubSeq(x, 1, k) \o "/:id")

\* C5: path_matches(pattern, path) is true exactly when the two are equal, or
\* the pattern holds the placeholder /:id and the path begins with the part of
\* the pattern before it.
C5_PathMatches ==
    pm.called =>
        (pm.result <=>
            \/ pm.route_path = pm.req_path
            \/ /\ HasPlaceholder(pm.route_path)
               /\ BeginsWith(pm.req_path, BeforePlaceholder(pm.route_path)))

\* The lax case of the specification: a path with a further segment matches.
C5_Witness ==
    /\ pm.called
    /\ pm.route_path = "/api/users/:id"
    /\ pm.req_path = "/api/users/123/extra"
    /\ pm.result

\* The first line of a raw input, without its line terminator.
FirstLine(raw) ==
    LET ends == {i \in 1..Len(raw) : At(raw, i) \in {"\r", "\n"}}
    IN IF ends = {} THEN raw ELSE SubSeq(raw, 1, MinOf(ends) - 1)

\* The whitespace-separated tokens of the first line: how many of the first
\* two there are, and which.
LineTokens(raw) == sscanf_s_s(FirstLine(raw))

HasRequestLine(raw) == LineTokens(raw).n = 2

Target(raw) == LineTokens(raw).second

\* Length of the part of target t before its first '?' (all of t without one).
BeforeLen(t) ==
    CHOOSE k \in 0..Len(t) :
        /\ k = Len(t) \/ At(t, k + 1) = "?"
        /\ \A j \in 1..k : At(t, j) # "?"

BeforeQuery(t) == SubSeq(t, 1, BeforeLen(t))

AfterQuery(t) == SubSeq(t, BeforeLen(t) + 2, Len(t))

ContentLengthOnWire(w) ==
    LET i == strstr(w, "Content-Length: ") + 16
    IN DigitsToNat(SubSeq(w, i, DigitsEnd(w, i) - 1))

\* The number of bytes on the wire after the first blank line.
BodyBytesOnWire(w) == Len(w) - (strstr(w, "\r\n\r\n") + 3)

\* C7: after init_response and any sequence of setter calls, body_length is
\* the byte length of body, and the Content-Length send_response writes is the
\* number of body bytes it writes after the blank line.
C7_ContentLength ==
    /\ res.body_length = Len(res.body)
    /\ pc = "sent" =>
          /\ strstr(wire, "\r\n\r\n") # 0
          /\ ContentLengthOnWire(wire) = BodyBytesOnWire(wire)
          /\ BodyBytesOnWire(wire) = Len(res.body)

\* The serialization example of the specification: status 201, body {"id":4}.
C7_Witness ==
    /\ pc = "sent"
    /\ res.status_code = 201
    /\ res.body = "{\"id\":4}"
    /\ BeginsWith(wire, "HTTP/1.1 201 Created\r\n")
    /\ ContentLengthOnWire(wire) = 8

Sends == {j \in 1..Len(sock_log) : sock_log[j] = "send"}

Closes == {j \in 1..Len(sock_log) : sock_log[j] = "close"}

\* C8 as stated: every accepted connection that is closed had exactly one
\* response written to it, before the close, and never more than one.
C8_Original ==
    /\ Cardinality(Sends) <= 1
    /\ Closes # {} =>
          /\ Cardinality(Sends) = 1
          /\ \A i \in Sends, j \in Closes : i < j

\* C8 as amended: a connection on which recv returned at least one byte has
\* exactly one response written to it before it is closed; a connection on
\* which recv returned 0 or -1 is closed with no response; never more than
\* one response is written per connection, and none after the close.
C8_OneResponse ==
    /\ Cardinality(Sends) <= 1
    /\ \A i \in Sends, j \in Closes : i < j
    /\ Closes # {} =>
          /\ Closes = {Len(sock_log)}
          /\ bytes_read > 0 => Cardinality(Sends) = 1
          /\ bytes_read <= 0 => Sends = {}

\* A connection that delivered a request was answered once and then closed.
C8_Witness ==
    /\ pc = "accept"
    /\ bytes_read > 0
    /\ sock_log = <<"recv_data", "send", "close">>
    /\ BeginsWith(wire, "HTTP/1.1 ")

\* C9: the response to a request depends on that request and the clock only:
\* it is the response a server that has served nothing gives to it.
C9_RequestAlone ==
    pc = "send" =>
        LET fresh == handle_request(middleware, routes, req, init_response, now, "").res
        IN /\ res.status_code = fresh.status_code
           /\ res.content_type = fresh.content_type
           /\ res.body = fresh.body

\* C10: an input whose first line lacks a method token or a target parses to
\* method UNSUPPORTED and an empty path, and is answered by the not-found
\* handler with 404.
C10_MalformedFallsThrough ==
    (pc = "send" /\ ~HasRequestLine(buffer)) =>
        /\ req.method = "UNSUPPORTED"
        /\ req.path = ""
        /\ IsRouteNotFound(res)
        /\ HandlerCalls # {}
        /\ Last(calls).fn = "handle_not_found"

====
